---- MODULE Spec2Model ----
(***************************************************************************)
(* Model of the crypto prospecting service                                 *)
(* (src/services/crypto_prospecting.py, class CryptoProspectingService).   *)
(*                                                                         *)
(* Units.  TLC has only integers, so every real quantity of the code is a  *)
(* fixed-point integer:                                                    *)
(*   balance        centi-ETH (1 = 0.01 ETH; balance_wei is a multiple of  *)
(*                  10^16, so round(eth_balance, 4) leaves it unchanged)   *)
(*   price          whole dollars per ETH                                  *)
(*   money          cents                                                  *)
(*   score          1/ScoreUnit of a point while it is being computed,     *)
(*                  hundredths of a point once round(x, 2) has been        *)
(*                  applied (the fields of the returned record)            *)
(*   time           seconds (price cache), days (transaction timestamps)   *)
(* Quotients are truncated to the unit; the code's binary floating point   *)
(* has a rounding error far below it.                                      *)
(***************************************************************************)
EXTENDS Integers, Sequences, FiniteSets, TLC

VARIABLES now,           \* time.time(), seconds
          price_cache,   \* self._price_cache  (dict: key -> price)
          cache_expiry,  \* self._cache_expiry (dict: key -> time)
          live,          \* history: the last live fetch that returned a price
          call           \* the operation in progress / its returned value

vars == <<now, price_cache, cache_expiry, live, call>>

----------------------------------------------------------------------------
(* Bounds of the model *)
MaxTime == 600           \* the clock stops here
MaxFails == 1            \* price requests of one handler that time out
MaxAddresses == 2        \* length of a batch / discovery list
MaxCallers == 2          \* concurrent callers of _get_eth_price

(* Program constants *)
CacheTTL      == 300     \* time.time() + 300
FallbackPrice == 2500    \* return 2500 / .get("usd", 2500)

ClockSteps == {299, 300}

cache_key == "eth_price"
EmptyDict == [k \in {} |-> 0]

Abs(x) == IF x < 0 THEN -x ELSE x
Min(a, b) == IF a <= b THEN a ELSE b
Max(a, b) == IF a >= b THEN a ELSE b

----------------------------------------------------------------------------
(* The spot-price provider.  A reply is what requests.get() and            *)
(* response.json() produce for one request.                                *)
PriceFailKinds == {"timeout", "http_error", "bad_json", "bad_shape"}
LivePrices == {2000, 3000}
PriceReplies ==
    [kind : PriceFailKinds \cup {"no_price"}, usd : {0}]
        \cup [kind : {"ok"}, usd : LivePrices]

(* _get_eth_price: one call at time t against the cache (pc, ce), the      *)
(* provider answering reply if it is asked.                                *)
(*   ret      the returned price                                           *)
(*   fetches  number of external requests issued                           *)
get_eth_price(pc, ce, t, reply) ==
    IF cache_key \in DOMAIN pc
       /\ t < (IF cache_key \in DOMAIN ce THEN ce[cache_key] ELSE 0)
    THEN [ret |-> pc[cache_key], cache |-> pc, expiry |-> ce, fetches |-> 0]
    ELSE IF reply.kind \in {"ok", "no_price"}
         THEN LET price == IF reply.kind = "ok" THEN reply.usd
                           ELSE FallbackPrice
              IN  [ret     |-> price,
                   cache   |-> [k \in DOMAIN pc \cup {cache_key} |->
                                  IF k = cache_key THEN price ELSE pc[k]],
                   expiry  |-> [k \in DOMAIN ce \cup {cache_key} |->
                                  IF k = cache_key THEN t + CacheTTL
                                  ELSE ce[k]],
                   fetches |-> 1]
         ELSE [ret |-> FallbackPrice, cache |-> pc, expiry |-> ce,
               fetches |-> 1]

(* history: the live fetch that last returned a price, and all the        *)
(* prices live fetches have returned                                       *)
NoLive == [at |-> -1, price |-> 0, prices |-> {}]
LiveAfter(lv, r, t, reply) ==
    IF r.fetches = 1 /\ reply.kind = "ok"
    THEN [at |-> t, price |-> reply.usd, prices |-> lv.prices \cup {reply.usd}]
    ELSE lv

Idle == [op |-> "idle"]

----------------------------------------------------------------------------
(* Exact integer arithmetic that stays inside TLC's 32-bit integers.       *)

(* <<q, r>> with a * b = q * c + r and 0 <= r < c, for 0 <= a < c, b >= 0  *)
RECURSIVE MulDivMod(_, _, _)
MulDivMod(a, b, c) ==
    IF b = 0 THEN <<0, 0>>
    ELSE LET h  == MulDivMod(a, b \div 2, c)
             q2 == 2 * h[1] + (IF 2 * h[2] >= c THEN 1 ELSE 0)
             r2 == IF 2 * h[2] >= c THEN 2 * h[2] - c ELSE 2 * h[2]
         IN  IF b % 2 = 0 THEN <<q2, r2>>
             ELSE IF r2 + a >= c THEN <<q2 + 1, r2 + a - c>>
                  ELSE <<q2, r2 + a>>

RECURSIVE GCD(_, _)
GCD(a, b) == IF b = 0 THEN a ELSE GCD(b, a % b)

Fits(a, b) == b = 0 \/ a <= 2147483647 \div b      \* a * b does not overflow

(* floor(a * b / c) for a, b >= 0 and c > 0 *)
MulDiv(a, b, c) ==
    LET g  == GCD(b, c)
        b1 == b \div g
        c1 == c \div g
    IN  IF Fits(a, b1) THEN (a * b1) \div c1
        ELSE (a \div c1) * b1 + MulDivMod(a % c1, b1, c1)[1]

(* round(a * b / c) to the nearest integer, ties to even (Python round) *)
MulDivRound(a, b, c) ==
    LET g  == GCD(b, c)
        b1 == b \div g
        c1 == c \div g
        m  == IF Fits(a, b1) THEN <<(a * b1) \div c1, (a * b1) % c1>>
              ELSE LET h == MulDivMod(a % c1, b1, c1)
                   IN  <<(a \div c1) * b1 + h[1], h[2]>>
        q  == m[1]
        \* compare the remainder with c1 / 2 without doubling it
        up   == m[2] > c1 - m[2]
        tie  == m[2] = c1 - m[2]
    IN  IF up THEN q + 1
        ELSE IF tie /\ q % 2 = 1 THEN q + 1
        ELSE q

(* round(n / d) *)
RoundDiv(n, d) == MulDivRound(n, 1, d)

----------------------------------------------------------------------------
(* The chain data provider (Etherscan).                                    *)
(*                                                                         *)
(* A Python list is modelled run-length encoded: a sequence of records,    *)
(* each standing for reps consecutive equal items.  A transaction carries  *)
(* what the code reads from it:                                            *)
(*   to, functionName  the protocol names occurring in the lower-cased     *)
(*                     field (the `protocol in to_addr` substring tests)   *)
(*   stake_farm        str(tx).lower() contains "stake" or "farm"          *)
(*   daysAgo           whole days between timeStamp and now, NoTimestamp   *)
(*                     when the field is missing or 0                      *)
(* A value returned by the gateway is [py |-> its Python type, items].     *)
NoTimestamp == -1
MissingSymbol == "<missing>"

PyList(items) == [py |-> "list", items |-> items]
PyNone        == [py |-> "None", items |-> <<>>]

GatewayFailKinds == {"timeout", "http_error", "bad_json", "bad_shape",
                     "status0"}

(* reply kinds: a failure; "ok" = 200, status "1", well-formed result;     *)
(* "bad_result" = 200, status "1", result of the wrong shape (balance: not *)
(* a number; txlist / tokentx: null instead of a list)                     *)
IsFailure(reply) == reply.kind \in GatewayFailKinds \cup {"bad_result"}

(* _get_wallet_balance: int(result) raises on a malformed result, inside   *)
(* the try block                                                           *)
get_wallet_balance(reply) ==
    IF reply.kind = "ok"
    THEN [balance_eth |-> reply.result, success |-> TRUE]
    ELSE [balance_eth |-> 0, success |-> FALSE]

(* _get_transaction_history: data.get("result", []) is returned as it is   *)
get_transaction_history(reply) ==
    IF reply.kind = "ok" THEN PyList(reply.result)
    ELSE IF reply.kind = "bad_result" THEN PyNone
    ELSE PyList(<<>>)

(* _get_token_holdings *)
get_token_holdings(reply) ==
    IF reply.kind = "ok" THEN PyList(reply.result)
    ELSE IF reply.kind = "bad_result" THEN PyNone
    ELSE PyList(<<>>)

----------------------------------------------------------------------------
(* Feature extraction                                                      *)
Cents == 10 * 10                   \* money unit: cents per dollar
KnownDefiClassify == {"uniswap", "aave", "compound", "curve", "maker",
                      "lido", "sushiswap"}
KnownDefiAnalyze  == {"uniswap", "aave", "compound", "curve", "maker",
                      "lido", "yearn"}

(* len() of a run-length encoded list *)
RECURSIVE PyLen(_)
PyLen(items) ==
    IF items = <<>> THEN 0 ELSE Head(items).reps + PyLen(Tail(items))

(* number of items of the list whose symbol is sym *)
RECURSIVE SymbolCount(_, _, _)
SymbolCount(items, sym, default) ==
    IF items = <<>> THEN 0
    ELSE (IF (IF Head(items).tokenSymbol = MissingSymbol THEN default
              ELSE Head(items).tokenSymbol) = sym
          THEN Head(items).reps ELSE 0)
         + SymbolCount(Tail(items), sym, default)

(* the set of token.get("tokenSymbol", default) over the list *)
Symbols(items, default) ==
    { IF items[i].tokenSymbol = MissingSymbol THEN default
      ELSE items[i].tokenSymbol : i \in 1..Len(items) }

SetMax(S) == CHOOSE x \in S : \A y \in S : y <= x

(* _classify_behavior without the test for an empty history *)
classify_behavior_no_empty_test(transactions, wallet_age_days, total_value2) ==
    LET tx_count == PyLen(transactions)
        rate_num == IF wallet_age_days > 0 THEN tx_count * 30 ELSE tx_count
        rate_den == IF wallet_age_days > 0 THEN wallet_age_days ELSE 1
        defi_protocols ==
            { p \in KnownDefiClassify :
                \E i \in 1..Len(transactions) :
                    p \in transactions[i].to
                    \/ p \in transactions[i].functionName }
    IN  IF total_value2 >= 2 * 1000000 * Cents THEN "whale"
        ELSE IF Cardinality(defi_protocols) >= 3 THEN "defi_power_user"
        ELSE IF rate_num > 20 * rate_den THEN "active_trader"
        ELSE IF rate_num >= 2 * rate_den /\ rate_num <= 10 * rate_den
             THEN "accumulator"
        ELSE IF rate_num < 2 * rate_den /\ wallet_age_days > 365
             THEN "hodler"
        ELSE IF \E i \in 1..Len(transactions) : transactions[i].stake_farm
             THEN "yield_farmer"
        ELSE "accumulator"

(* _classify_behavior with the DeFi test placed before the whale test *)
classify_behavior_defi_first(transactions, wallet_age_days, total_value2) ==
    IF transactions = <<>> THEN "dormant"
    ELSE
    LET tx_count == PyLen(transactions)
        rate_num == IF wallet_age_days > 0 THEN tx_count * 30 ELSE tx_count
        rate_den == IF wallet_age_days > 0 THEN wallet_age_days ELSE 1
        defi_protocols ==
            { p \in KnownDefiClassify :
                \E i \in 1..Len(transactions) :
                    p \in transactions[i].to
                    \/ p \in transactions[i].functionName }
    IN  IF Cardinality(defi_protocols) >= 3 THEN "defi_power_user"
        ELSE IF total_value2 >= 2 * 1000000 * Cents THEN "whale"
        ELSE IF rate_num > 20 * rate_den THEN "active_trader"
        ELSE IF rate_num >= 2 * rate_den /\ rate_num <= 10 * rate_den
             THEN "accumulator"
        ELSE IF rate_num < 2 * rate_den /\ wallet_age_days > 365
             THEN "hodler"
        ELSE IF \E i \in 1..Len(transactions) : transactions[i].stake_farm
             THEN "yield_farmer"
        ELSE "accumulator"

(* _classify_behavior; total_value2 is the total value in half cents *)
classify_behavior(transactions, wallet_age_days, total_value2) ==
    IF transactions = <<>> THEN "dormant"
    ELSE
    LET tx_count == PyLen(transactions)
        \* tx_per_month = rate_num / rate_den
        rate_num == IF wallet_age_days > 0 THEN tx_count * 30 ELSE tx_count
        rate_den == IF wallet_age_days > 0 THEN wallet_age_days ELSE 1
        defi_protocols ==
            { p \in KnownDefiClassify :
                \E i \in 1..Len(transactions) :
                    p \in transactions[i].to
                    \/ p \in transactions[i].functionName }
    IN  IF total_value2 >= 2 * 1000000 * Cents THEN "whale"
        ELSE IF Cardinality(defi_protocols) >= 3 THEN "defi_power_user"
        ELSE IF rate_num > 20 * rate_den THEN "active_trader"
        ELSE IF rate_num >= 2 * rate_den /\ rate_num <= 10 * rate_den
             THEN "accumulator"
        ELSE IF rate_num < 2 * rate_den /\ wallet_age_days > 365
             THEN "hodler"
        ELSE IF \E i \in 1..Len(transactions) : transactions[i].stake_farm
             THEN "yield_farmer"
        ELSE "accumulator"

(* _calculate_diversification, in hundredths of a point; eth_value is      *)
(* eth_balance * eth_price in cents.  With T the sum of the holdings and M *)
(* the largest one, diversification * (1 - (M/T - 0.5)) is computed as     *)
(* diversification/2 + diversification * (T - M)/T.                        *)
calculate_diversification(eth_value, token_holdings) ==
    LET syms      == Symbols(token_holdings, "UNKNOWN")
        keys      == {"ETH"} \cup syms
        holding(k) == (IF k = "ETH" THEN eth_value ELSE 0)
                      + Cents * SymbolCount(token_holdings, k, "UNKNOWN")
        total_positions == Cardinality(keys)
        diversification == Min(100 * 100, (total_positions * 100 * 100) \div 20)
        RECURSIVE Sum(_)
        Sum(K) == IF K = {} THEN 0
                  ELSE LET k == CHOOSE x \in K : TRUE
                       IN  holding(k) + Sum(K \ {k})
        total_value == Sum(keys)
        largest     == SetMax({holding(k) : k \in keys})
    IN  IF total_value > 0 /\ 2 * largest > total_value
        THEN diversification \div 2
             + MulDivRound(total_value - largest, diversification, total_value)
        ELSE diversification

NoMetrics == [address |-> ""]

(* the token estimate without its cap *)
estimate_token_value2_uncapped(token_count, eth_value) ==
    2 * token_count * 1000 * Cents

(* estimated_token_value = min(token_count * 1000, total_value * 0.5), in  *)
(* half cents; eth_value is eth_balance * eth_price in cents               *)
estimate_token_value2(token_count, eth_value) ==
    Min(2 * token_count * 1000 * Cents, eth_value)

(* analyze_wallet after its four reads: eth_price is the price returned by *)
(* _get_eth_price, the other arguments the values returned by the gateway. *)
(* Iterating, indexing or len() of a value that is not a list raises.      *)
analyze_metrics(address, eth_price, balance_data, transactions, token_holdings) ==
    IF transactions.py # "list" \/ token_holdings.py # "list"
    THEN [raised |-> TRUE, metrics |-> NoMetrics]
    ELSE
    LET eth_balance == balance_data.balance_eth
        txs  == transactions.items
        toks == token_holdings.items
        first_tx == IF txs = <<>> THEN NoTimestamp
                    ELSE txs[Len(txs)].daysAgo
        last_tx  == IF txs = <<>> THEN NoTimestamp ELSE txs[1].daysAgo
        wallet_age_days == IF first_tx = NoTimestamp THEN 0 ELSE first_tx
        eth_value == eth_balance * eth_price               \* cents
        token_count == Cardinality(Symbols(toks, ""))
        estimated_token_value2 == estimate_token_value2(token_count, eth_value)
        total_value2 == 2 * eth_value + estimated_token_value2
        behavior == classify_behavior(txs, wallet_age_days, total_value2)
        diversification == calculate_diversification(eth_value, toks)
        \* tenths of a day: wallet_age_days * 0.6
        avg_hold_time == IF wallet_age_days > 0 THEN wallet_age_days * 6
                         ELSE 0
        \* hundredths of a percent
        eth_pct == IF total_value2 > 0
                   THEN MulDivRound(2 * eth_value, 100 * 100, total_value2)
                   ELSE 100 * 100
        defi_protocols ==
            { p \in KnownDefiAnalyze :
                \E i \in 1..Len(txs) : p \in txs[i].to }
    IN  [raised |-> FALSE,
         metrics |->
           [address |-> address,
            total_value_usd |-> RoundDiv(total_value2, 2),
            eth_balance |-> eth_balance,
            token_count |-> token_count,
            nft_count |-> 0,
            first_transaction_date |-> first_tx,
            last_transaction_date |-> last_tx,
            transaction_count |-> PyLen(txs),
            wallet_age_days |-> wallet_age_days,
            avg_hold_time_days |-> avg_hold_time,
            largest_single_holding_pct |-> eth_pct,
            defi_protocol_count |-> Cardinality(defi_protocols),
            staking_positions |-> 0,
            has_ens |-> FALSE,
            behavior_type |-> behavior,
            diversification_score |-> diversification]]

----------------------------------------------------------------------------
(* Scoring engine.  Component scores are in 1/ScoreUnit of a point; the    *)
(* weighted overall score is in 1/OverallUnit of a point, so that it is    *)
(* the exact weighted sum.                                                 *)
ScoreUnit == 100 * 100
WEALTH_WEIGHT       == 30          \* 0.30, in hundredths
STABILITY_WEIGHT    == 25          \* 0.25
BEHAVIOR_WEIGHT     == 20          \* 0.20
LIQUIDITY_WEIGHT    == 15          \* 0.15
VERIFICATION_WEIGHT == 10          \* 0.10
WeightUnit  == 10 * 10             \* 1.0, in hundredths
OverallUnit == ScoreUnit * WeightUnit

Points(n) == n * ScoreUnit
Usd(n) == n * Cents

(* round(score, 2): hundredths of a point *)
Round2(score) == RoundDiv(score, ScoreUnit \div 100)
Round2Overall(overall) == RoundDiv(overall, OverallUnit \div 100)

(* _calculate_wealth_score whose top bracket is not capped with min *)
calculate_wealth_score_uncapped(metrics) ==
    LET value == metrics.total_value_usd IN
    IF value < Usd(50000)
    THEN Min(Points(30), MulDiv(value, Points(30), Usd(50000)))
    ELSE IF value < Usd(100000)
    THEN Points(30) + MulDiv(value - Usd(50000), Points(20), Usd(50000))
    ELSE IF value < Usd(250000)
    THEN Points(50) + MulDiv(value - Usd(100000), Points(20), Usd(150000))
    ELSE IF value < Usd(500000)
    THEN Points(70) + MulDiv(value - Usd(250000), Points(15), Usd(250000))
    ELSE IF value < Usd(1000000)
    THEN Points(85) + MulDiv(value - Usd(500000), Points(10), Usd(500000))
    ELSE Points(95) + MulDiv(value - Usd(1000000), Points(5), Usd(1000000))

(* _calculate_wealth_score *)
calculate_wealth_score(metrics) ==
    LET value == metrics.total_value_usd IN
    IF value < Usd(50000)
    THEN Min(Points(30), MulDiv(value, Points(30), Usd(50000)))
    ELSE IF value < Usd(100000)
    THEN Points(30) + MulDiv(value - Usd(50000), Points(20), Usd(50000))
    ELSE IF value < Usd(250000)
    THEN Points(50) + MulDiv(value - Usd(100000), Points(20), Usd(150000))
    ELSE IF value < Usd(500000)
    THEN Points(70) + MulDiv(value - Usd(250000), Points(15), Usd(250000))
    ELSE IF value < Usd(1000000)
    THEN Points(85) + MulDiv(value - Usd(500000), Points(10), Usd(500000))
    ELSE Min(Points(100),
             Points(95) + Min(Points(5),
                              MulDiv(value - Usd(1000000), Points(5),
                                     Usd(1000000))))

(* _calculate_stability_score *)
calculate_stability_score(metrics) ==
    LET age_part ==
            IF metrics.wallet_age_days >= 730 THEN Points(40)
            ELSE IF metrics.wallet_age_days >= 365 THEN Points(30)
            ELSE IF metrics.wallet_age_days >= 180 THEN Points(20)
            ELSE MulDiv(metrics.wallet_age_days, Points(20), 180)
        \* avg_hold_time_days is in tenths of a day
        hold_part ==
            IF metrics.avg_hold_time_days >= 365 * 10 THEN Points(30)
            ELSE IF metrics.avg_hold_time_days >= 180 * 10 THEN Points(20)
            ELSE MulDiv(metrics.avg_hold_time_days, Points(20), 180 * 10)
        \* diversification_score is in hundredths of a point: score * 0.3
        div_part == MulDiv(metrics.diversification_score, 3 * ScoreUnit,
                           10 * 100)
    IN  Min(Points(100), age_part + hold_part + div_part)

(* _calculate_behavior_score *)
behavior_scores(behavior) ==
    CASE behavior = "hodler"          -> 85
      [] behavior = "accumulator"     -> 90
      [] behavior = "whale"           -> 80
      [] behavior = "yield_farmer"    -> 75
      [] behavior = "defi_power_user" -> 70
      [] behavior = "active_trader"   -> 50
      [] behavior = "dormant"         -> 30
      [] OTHER                        -> 50

calculate_behavior_score(metrics) ==
    LET base_score == behavior_scores(metrics.behavior_type)
        defi_bonus == IF metrics.defi_protocol_count >= 3 THEN 5 ELSE 0
        activity_bonus ==
            IF metrics.transaction_count >= 50
               /\ metrics.wallet_age_days >= 365 THEN 5 ELSE 0
    IN  Min(Points(100), Points(base_score + defi_bonus + activity_bonus))

(* _calculate_liquidity_score; eth_price is the price returned by its own  *)
(* call of _get_eth_price                                                  *)
calculate_liquidity_score(metrics, eth_price) ==
    LET eth_value == metrics.eth_balance * eth_price       \* cents
        eth_part == IF eth_value >= Usd(50000) THEN Points(50)
                    ELSE MulDiv(eth_value, Points(50), Usd(50000))
        token_part == IF metrics.token_count >= 10 THEN Points(30)
                      ELSE MulDiv(metrics.token_count, Points(30), 10)
        recent_part ==
            IF metrics.last_transaction_date = NoTimestamp THEN 0
            ELSE IF metrics.last_transaction_date <= 30 THEN Points(20)
            ELSE IF metrics.last_transaction_date <= 90 THEN Points(10)
            ELSE 0
    IN  Min(Points(100), eth_part + token_part + recent_part)

(* _calculate_verification_score *)
calculate_verification_score(metrics) ==
    Min(Points(100),
        Points(50)
        + (IF metrics.has_ens THEN Points(30) ELSE 0)
        + (IF metrics.wallet_age_days >= 365 THEN Points(10) ELSE 0)
        + (IF metrics.transaction_count >= 100 THEN Points(10) ELSE 0))

(* _determine_risk_tier; overall_score in 1/OverallUnit, value in cents *)
(* _determine_risk_tier whose near_prime test compares the value the      *)
(* wrong way round                                                         *)
determine_risk_tier_value_flipped(overall_score, total_value_usd) ==
    IF overall_score >= 75 * OverallUnit /\ total_value_usd >= Usd(100000)
    THEN "prime"
    ELSE IF overall_score >= 60 * OverallUnit
            /\ total_value_usd <= Usd(50000)
    THEN "near_prime"
    ELSE IF overall_score >= 40 * OverallUnit THEN "subprime"
    ELSE "unqualified"

determine_risk_tier(overall_score, total_value_usd) ==
    IF overall_score >= 75 * OverallUnit /\ total_value_usd >= Usd(100000)
    THEN "prime"
    ELSE IF overall_score >= 60 * OverallUnit
            /\ total_value_usd >= Usd(50000)
    THEN "near_prime"
    ELSE IF overall_score >= 40 * OverallUnit THEN "subprime"
    ELSE "unqualified"

(* _estimate_income, whole dollars *)
estimate_income(metrics) ==
    LET base_income ==
            IF metrics.total_value_usd >= Usd(500000) THEN 200000
            ELSE IF metrics.total_value_usd >= Usd(250000) THEN 150000
            ELSE IF metrics.total_value_usd >= Usd(100000) THEN 100000
            ELSE IF metrics.total_value_usd >= Usd(50000) THEN 75000
            ELSE 50000
        defi == IF metrics.defi_protocol_count >= 3
                THEN (base_income * 12) \div 10 ELSE base_income
    IN  IF metrics.behavior_type = "accumulator"
        THEN RoundDiv(defi * 11, 10) ELSE defi

(* tier_multipliers, in hundredths *)
tier_multipliers(risk_tier) ==
    CASE risk_tier = "prime"       -> 100
      [] risk_tier = "near_prime"  -> 85
      [] risk_tier = "subprime"    -> 70
      [] OTHER                     -> 50

(* the maximum mortgage by income alone *)
calculate_max_mortgage_by_income(estimated_income, net_worth, risk_tier) ==
    MulDivRound(estimated_income * 5, tier_multipliers(risk_tier), 100)

(* _calculate_max_mortgage, whole dollars; net_worth in cents *)
calculate_max_mortgage(estimated_income, net_worth, risk_tier) ==
    LET max_by_income2 == estimated_income * 5 * 2 * Cents   \* half cents
        max_by_assets2 == net_worth                          \* half cents
        base_max2 == Min(max_by_income2, max_by_assets2)
    IN  MulDivRound(base_max2, tier_multipliers(risk_tier),
                    2 * Cents * 100)

(* _recommend_ltv *)
recommend_ltv(risk_tier, metrics) ==
    LET ltv == CASE risk_tier = "prime"      -> 80
                 [] risk_tier = "near_prime" -> 75
                 [] risk_tier = "subprime"   -> 70
                 [] OTHER                    -> 60
    IN  IF metrics.wallet_age_days >= 730
           /\ metrics.diversification_score >= 70 * 100
        THEN Min(85, ltv + 5) ELSE ltv

(* the outreach priority with "high" from a score of 60 *)
determine_outreach_priority_high_at_sixty(overall_score, total_value_usd) ==
    IF overall_score >= 60 * OverallUnit /\ total_value_usd >= Usd(250000)
    THEN "high"
    ELSE IF overall_score >= 60 * OverallUnit
            /\ total_value_usd >= Usd(100000)
    THEN "medium"
    ELSE "low"

(* _determine_outreach_priority *)
determine_outreach_priority(overall_score, total_value_usd) ==
    IF overall_score >= 80 * OverallUnit /\ total_value_usd >= Usd(250000)
    THEN "high"
    ELSE IF overall_score >= 60 * OverallUnit
            /\ total_value_usd >= Usd(100000)
    THEN "medium"
    ELSE "low"

(* the weighted overall score of score_for_mortgage, in 1/OverallUnit *)
(* the weighted sum with the verification term left out *)
weighted_overall_score_four_terms(wealth_score, stability_score, behavior_score, liquidity_score, verification_score) ==
      wealth_score * WEALTH_WEIGHT
    + stability_score * STABILITY_WEIGHT
    + behavior_score * BEHAVIOR_WEIGHT
    + liquidity_score * LIQUIDITY_WEIGHT

weighted_overall_score(wealth_score, stability_score, behavior_score, liquidity_score, verification_score) ==
      wealth_score * WEALTH_WEIGHT
    + stability_score * STABILITY_WEIGHT
    + behavior_score * BEHAVIOR_WEIGHT
    + liquidity_score * LIQUIDITY_WEIGHT
    + verification_score * VERIFICATION_WEIGHT

(* score_for_mortgage after analyze_wallet has returned metrics;           *)
(* liquidity_price is what _get_eth_price returns to the liquidity score   *)
score_metrics(address, metrics, liquidity_price) ==
    LET wealth_score       == calculate_wealth_score(metrics)
        stability_score    == calculate_stability_score(metrics)
        behavior_score     == calculate_behavior_score(metrics)
        liquidity_score    == calculate_liquidity_score(metrics,
                                                        liquidity_price)
        verification_score == calculate_verification_score(metrics)
        overall_score ==
            weighted_overall_score(wealth_score, stability_score,
                                   behavior_score, liquidity_score,
                                   verification_score)
        risk_tier == determine_risk_tier(overall_score,
                                         metrics.total_value_usd)
        estimated_income == estimate_income(metrics)
    IN  [wallet_address |-> address,
         overall_score |-> Round2Overall(overall_score),
         risk_tier |-> risk_tier,
         wealth_score |-> Round2(wealth_score),
         stability_score |-> Round2(stability_score),
         behavior_score |-> Round2(behavior_score),
         liquidity_score |-> Round2(liquidity_score),
         verification_score |-> Round2(verification_score),
         estimated_annual_income |-> estimated_income,
         estimated_net_worth |-> metrics.total_value_usd,
         max_mortgage_amount |->
             calculate_max_mortgage(estimated_income,
                                    metrics.total_value_usd, risk_tier),
         recommended_ltv |-> recommend_ltv(risk_tier, metrics),
         outreach_priority |->
             determine_outreach_priority(overall_score,
                                         metrics.total_value_usd)]

----------------------------------------------------------------------------
(* The handlers.  st is the state of the service while a handler runs:     *)
(* the two cache dicts, the history variable live, and the number of       *)
(* price requests the handler has issued so far.  A feed says how the      *)
(* price provider answers the successive requests of one handler: the      *)
(* first feed.fails requests time out, every later one gets feed.then.     *)
(* The value of a sub-result that several later steps read: the element   *)
(* of a set {result(x) : x \in {value}}, which binds x to the value.       *)
Once(S) == CHOOSE r \in S : TRUE

ReplyAt(feed, i) ==
    IF i <= feed.fails THEN [kind |-> "timeout", usd |-> 0] ELSE feed.then

price_call(st, t, feed) ==
    LET reply == ReplyAt(feed, st.fetched + 1) IN
    Once({ [ret |-> r.ret,
            st  |-> [cache |-> r.cache, expiry |-> r.expiry,
                     live |-> LiveAfter(st.live, r, t, reply),
                     fetched |-> st.fetched + r.fetches,
                     reads |-> st.reads]]
           : r \in {get_eth_price(st.cache, st.expiry, t, reply)} })

(* analyze_wallet; chain holds the provider's replies to the three reads *)
analyze_wallet(address, st, t, feed, chain) ==
    Once({
      LET balance_data   == get_wallet_balance(chain.balance)
          transactions   == get_transaction_history(chain.txlist)
          token_holdings == get_token_holdings(chain.tokentx)
      IN  Once({ [raised |-> a.raised, metrics |-> a.metrics,
                  \* one request each for balance, txlist and tokentx
                  st |-> [p.st EXCEPT !.reads = @ + 3],
                  eth_price |-> p.ret, balance_data |-> balance_data,
                  transactions |-> transactions,
                  token_holdings |-> token_holdings]
                 : a \in {analyze_metrics(address, p.ret, balance_data,
                                          transactions, token_holdings)} })
      : p \in {price_call(st, t, feed)} })

NoScore == [wallet_address |-> ""]

(* score_for_mortgage.  eth_price is the price analyze_wallet used,       *)
(* analyzed the state of the service when analyze_wallet returned,         *)
(* liquidity_price the price _calculate_liquidity_score got.               *)
score_for_mortgage(address, st, t, feed, chain) ==
    Once({
      IF a.raised
      THEN [raised |-> TRUE, score |-> NoScore, metrics |-> a.metrics,
            eth_price |-> a.eth_price, analyzed |-> a.st,
            liquidity_price |-> 0, st |-> a.st]
      ELSE Once({ [raised |-> FALSE,
                   score |-> score_metrics(address, a.metrics, p.ret),
                   metrics |-> a.metrics,
                   eth_price |-> a.eth_price, analyzed |-> a.st,
                   liquidity_price |-> p.ret, st |-> p.st]
                  : p \in {price_call(a.st, t, feed)} })
      : a \in {analyze_wallet(address, st, t, feed, chain)} })

(* list.sort(key = ..., reverse = True): stable, descending; keys[i] is   *)
(* the key of items[i].  The items of the largest key come first, in      *)
(* their order in the list; K is the set of the keys still to place.      *)
RECURSIVE SortGroups(_, _, _)
SortGroups(items, keys, K) ==
    IF K = {} THEN <<>>
    ELSE LET k == SetMax(K)
             at == SelectSeq([i \in 1..Len(items) |-> i],
                             LAMBDA i : keys[i] = k)
         IN  [j \in 1..Len(at) |-> items[at[j]]]
                \o SortGroups(items, keys, K \ {k})

SortDesc(items, keys) ==
    SortGroups(items, keys, {keys[i] : i \in 1..Len(items)})

(* the loop body of batch_analyze without its try / except *)
batch_item_unguarded(address, st, t, feed, chain) ==
    Once({ [record |-> IF s.raised
                       THEN [wallet_address |-> address,
                             error |-> "exception", overall_score |-> 0]
                       ELSE s.score,
            outcome |-> IF s.raised THEN "raised" ELSE "scored",
            propagate |-> s.raised,
            st |-> s.st]
           : s \in {score_for_mortgage(address, st, t, feed, chain)} })

(* one iteration of the loop of batch_analyze: the try block and its       *)
(* except clause.  propagate: the exception leaves the loop.               *)
batch_item(address, st, t, feed, chain) ==
    Once({ [record |-> IF s.raised
                       THEN [wallet_address |-> address,
                             error |-> "exception", overall_score |-> 0]
                       ELSE s.score,
            outcome |-> IF s.raised THEN "raised" ELSE "scored",
            propagate |-> FALSE,
            st |-> s.st]
           : s \in {score_for_mortgage(address, st, t, feed, chain)} })

(* the loop of batch_analyze over addresses[lo..hi], the first half of    *)
(* the range before the second; an exception that propagates ends it       *)
RECURSIVE batch_loop(_, _, _, _, _, _, _)
batch_loop(addresses, chains, lo, hi, acc, t, feed) ==
    IF acc.raised \/ lo > hi THEN acc
    ELSE IF lo = hi
    THEN Once({
           IF it.propagate
           THEN [acc EXCEPT !.raised = TRUE, !.st = it.st,
                            !.trace = Append(@, it.outcome)]
           ELSE [raised |-> FALSE,
                 results |-> Append(acc.results, it.record),
                 trace |-> Append(acc.trace, it.outcome),
                 st |-> it.st]
           : it \in {batch_item(addresses[lo], acc.st, t, feed, chains[lo])} })
    ELSE Once({ batch_loop(addresses, chains, (lo + hi) \div 2 + 1, hi,
                           half, t, feed)
                : half \in {batch_loop(addresses, chains, lo,
                                       (lo + hi) \div 2, acc, t, feed)} })

(* the sort of batch_analyze without reverse = True *)
batch_keys_ascending(results) ==
    [i \in 1..Len(results) |-> 0 - results[i].overall_score]

(* key = lambda x: x.get("overall_score", 0) *)
batch_keys(results) == [i \in 1..Len(results) |-> results[i].overall_score]

(* batch_analyze *)
batch_analyze(addresses, st, t, feed, chains) ==
    Once({ [raised |-> l.raised,
            ret |-> IF l.raised THEN <<>>
                    ELSE SortDesc(l.results, batch_keys(l.results)),
            unsorted |-> l.results, trace |-> l.trace, st |-> l.st]
           : l \in {batch_loop(addresses, chains, 1, Len(addresses),
                               [raised |-> FALSE, results |-> <<>>,
                                trace |-> <<>>, st |-> st], t, feed)} })

(* the loop body of discover_prospects with the test of the value after  *)
(* the scoring                                                             *)
discover_item_value_test_late(address, min_value_usd, min_score, st, t, feed, first, second) ==
    Once({
      IF a.raised
      THEN [outcome |-> "raised", propagate |-> FALSE, st |-> a.st]
      ELSE
      Once({
        IF s.raised
        THEN [outcome |-> "raised", propagate |-> FALSE, st |-> s.st]
        ELSE IF a.metrics.total_value_usd < min_value_usd
        THEN [outcome |-> "low_value", propagate |-> FALSE, st |-> s.st]
        ELSE IF s.score.overall_score < min_score
        THEN [outcome |-> "low_score", propagate |-> FALSE, st |-> s.st]
        ELSE [outcome |-> "lead", propagate |-> FALSE, st |-> s.st,
              lead |-> [wallet_address |-> address,
                        qualification_score |-> s.score.overall_score,
                        risk_tier |-> s.score.risk_tier,
                        estimated_value |-> a.metrics.total_value_usd,
                        behavior_type |-> a.metrics.behavior_type,
                        last_active |-> a.metrics.last_transaction_date,
                        priority |-> s.score.outreach_priority,
                        scored |-> s.metrics]]
        : s \in {score_for_mortgage(address, a.st, t, feed, second)} })
      : a \in {analyze_wallet(address, st, t, feed, first)} })

(* the loop body of discover_prospects without the test of the value *)
discover_item_any_value(address, min_value_usd, min_score, st, t, feed, first, second) ==
    Once({
      IF a.raised
      THEN [outcome |-> "raised", propagate |-> FALSE, st |-> a.st]
      ELSE
      Once({
        IF s.raised
        THEN [outcome |-> "raised", propagate |-> FALSE, st |-> s.st]
        ELSE IF s.score.overall_score < min_score
        THEN [outcome |-> "low_score", propagate |-> FALSE, st |-> s.st]
        ELSE [outcome |-> "lead", propagate |-> FALSE, st |-> s.st,
              lead |-> [wallet_address |-> address,
                        qualification_score |-> s.score.overall_score,
                        risk_tier |-> s.score.risk_tier,
                        estimated_value |-> a.metrics.total_value_usd,
                        behavior_type |-> a.metrics.behavior_type,
                        last_active |-> a.metrics.last_transaction_date,
                        priority |-> s.score.outreach_priority,
                        scored |-> s.metrics]]
        : s \in {score_for_mortgage(address, a.st, t, feed, second)} })
      : a \in {analyze_wallet(address, st, t, feed, first)} })

(* one iteration of the loop of discover_prospects; first and second are   *)
(* the provider's replies to the reads of analyze_wallet and to the reads  *)
(* of score_for_mortgage.  "unknown" is modelled by NoTimestamp.  The      *)
(* field scored of a lead is history: the metrics score_for_mortgage got   *)
(* from its own analyze_wallet (line 724) and computed the score from.     *)
discover_item(address, min_value_usd, min_score, st, t, feed, first, second) ==
    Once({
      IF a.raised
      THEN [outcome |-> "raised", propagate |-> FALSE, st |-> a.st]
      ELSE IF a.metrics.total_value_usd < min_value_usd
      THEN [outcome |-> "low_value", propagate |-> FALSE, st |-> a.st]
      ELSE
      Once({
        IF s.raised
        THEN [outcome |-> "raised", propagate |-> FALSE, st |-> s.st]
        ELSE IF s.score.overall_score < min_score
        THEN [outcome |-> "low_score", propagate |-> FALSE, st |-> s.st]
        ELSE [outcome |-> "lead", propagate |-> FALSE, st |-> s.st,
              lead |-> [wallet_address |-> address,
                        qualification_score |-> s.score.overall_score,
                        risk_tier |-> s.score.risk_tier,
                        estimated_value |-> a.metrics.total_value_usd,
                        behavior_type |-> a.metrics.behavior_type,
                        last_active |-> a.metrics.last_transaction_date,
                        priority |-> s.score.outreach_priority,
                        scored |-> s.metrics]]
        : s \in {score_for_mortgage(address, a.st, t, feed, second)} })
      : a \in {analyze_wallet(address, st, t, feed, first)} })

(* the loop of discover_prospects over addresses[lo..hi] *)
RECURSIVE discover_loop(_, _, _, _, _, _, _, _, _, _)
discover_loop(addresses, min_value_usd, min_score, firsts, seconds, lo, hi, acc, t, feed) ==
    IF acc.raised \/ lo > hi THEN acc
    ELSE IF lo = hi
    THEN Once({
           IF it.propagate
           THEN [acc EXCEPT !.raised = TRUE, !.st = it.st,
                            !.trace = Append(@, it.outcome),
                            !.reads = Append(@, it.st.reads - acc.st.reads)]
           ELSE [raised |-> FALSE,
                 results |-> IF it.outcome = "lead"
                             THEN Append(acc.results, it.lead)
                             ELSE acc.results,
                 trace |-> Append(acc.trace, it.outcome),
                 \* the provider reads made for this address
                 reads |-> Append(acc.reads, it.st.reads - acc.st.reads),
                 st |-> it.st]
           : it \in {discover_item(addresses[lo], min_value_usd, min_score,
                                   acc.st, t, feed, firsts[lo], seconds[lo])} })
    ELSE Once({ discover_loop(addresses, min_value_usd, min_score, firsts,
                              seconds, (lo + hi) \div 2 + 1, hi, half, t,
                              feed)
                : half \in {discover_loop(addresses, min_value_usd,
                                          min_score, firsts, seconds, lo,
                                          (lo + hi) \div 2, acc, t, feed)} })

(* key = lambda x: x.qualification_score *)
lead_keys(prospects) ==
    [i \in 1..Len(prospects) |-> prospects[i].qualification_score]

(* discover_prospects *)
discover_prospects(min_value_usd, min_score, sample_addresses, st, t, feed, firsts, seconds) ==
    IF sample_addresses = <<>>
    THEN [raised |-> FALSE, ret |-> <<>>, unsorted |-> <<>>,
          trace |-> <<>>, reads |-> <<>>, st |-> st]
    ELSE
    Once({ [raised |-> l.raised,
            ret |-> IF l.raised THEN <<>>
                    ELSE SortDesc(l.results, lead_keys(l.results)),
            unsorted |-> l.results, trace |-> l.trace, reads |-> l.reads,
            st |-> l.st]
           : l \in {discover_loop(sample_addresses, min_value_usd, min_score,
                                  firsts, seconds, 1,
                                  Len(sample_addresses),
                                  [raised |-> FALSE, results |-> <<>>,
                                   trace |-> <<>>, reads |-> <<>>,
                                   st |-> st], t, feed)} })

----------------------------------------------------------------------------
(* The provider answers the model draws from.                              *)
Tx(to, fn, sf, days, reps) ==
    [to |-> to, functionName |-> fn, stake_farm |-> sf, daysAgo |-> days,
     reps |-> reps]
Tok(sym, reps) == [tokenSymbol |-> sym, reps |-> reps]

\* 120 transactions, the oldest 800 days old
HistoryOld ==
    <<Tx({}, {}, FALSE, 10, 119), Tx({}, {}, FALSE, 800, 1)>>
\* 6 transactions, the oldest 400 days old
HistoryQuiet ==
    <<Tx({}, {}, FALSE, 40, 5), Tx({}, {}, FALSE, 400, 1)>>
\* 120 transactions, 5 of them with recognized DeFi protocols
HistoryDefi ==
    <<Tx({"uniswap"}, {}, FALSE, 10, 2), Tx({"aave"}, {}, FALSE, 20, 2),
      Tx({}, {"compound"}, FALSE, 30, 1), Tx({}, {}, FALSE, 50, 114),
      Tx({"lido", "yearn"}, {}, TRUE, 800, 1)>>
\* 120 transactions, the oldest 800 days old, the latest 40 days old, 5 of
\* them with recognized DeFi protocols
HistoryFunded ==
    <<Tx({"uniswap"}, {}, FALSE, 40, 2), Tx({"aave"}, {}, FALSE, 41, 2),
      Tx({"compound"}, {}, FALSE, 42, 1), Tx({}, {}, FALSE, 150, 114),
      Tx({}, {}, FALSE, 800, 1)>>
\* 100 transactions in 100 days
HistoryTrader ==
    <<Tx({}, {}, FALSE, 1, 99), Tx({}, {}, FALSE, 100, 1)>>
\* 4 transactions in 100 days, staking
HistoryStaker ==
    <<Tx({}, {}, TRUE, 60, 3), Tx({}, {}, FALSE, 100, 1)>>
\* one transaction without a timestamp
HistoryUndated ==
    <<Tx({}, {}, FALSE, NoTimestamp, 1)>>

Histories == {HistoryOld, HistoryQuiet, HistoryDefi, HistoryTrader,
              HistoryStaker, HistoryUndated}

TokensTwo  == <<Tok("USDC", 2), Tok("DAI", 1)>>
TokensMany == [i \in 1..12 |-> Tok(ToString(i), 1)]
TokensOdd  == <<Tok(MissingSymbol, 1), Tok("ETH", 3), Tok("", 1)>>
TokenLists == {TokensTwo, TokensMany, TokensOdd}
\* 82 transfers of 31 tokens
TokensFunded == [i \in 1..31 |-> Tok(ToString(i), IF i = 1 THEN 52 ELSE 1)]

\* centi-ETH
Balances == {0, 1488, 2000, 4308, 5000, 9808, 40000, 120000}

FailReplies == [kind : GatewayFailKinds \cup {"bad_result"}, result : {<<>>}]
BalanceFailReplies == [kind : GatewayFailKinds \cup {"bad_result"}, result : {0}]

BalanceReplies == BalanceFailReplies \cup [kind : {"ok"}, result : Balances]
TxReplies      == FailReplies \cup [kind : {"ok"}, result : Histories]
TokenReplies   == FailReplies \cup [kind : {"ok"}, result : TokenLists]

----------------------------------------------------------------------------
Init ==
    /\ now = 0
    /\ price_cache = EmptyDict
    /\ cache_expiry = EmptyDict
    /\ live = NoLive
    /\ call = Idle

(* the clock advances between two requests *)
Tick ==
    /\ call = Idle
    /\ \E d \in ClockSteps :
          /\ now + d <= MaxTime
          /\ now' = now + d
    /\ UNCHANGED <<price_cache, cache_expiry, live, call>>

(* a direct call of _get_eth_price *)
GetEthPrice ==
    /\ call = Idle
    /\ \E reply \in PriceReplies :
         \E r \in {get_eth_price(price_cache, cache_expiry, now, reply)} :
           /\ price_cache' = r.cache
           /\ cache_expiry' = r.expiry
           /\ live' = LiveAfter(live, r, now, reply)
           /\ call' = [op |-> "get_eth_price", reply |-> reply,
                       ret |-> r.ret, fetches |-> r.fetches,
                       cache_before |-> price_cache,
                       expiry_before |-> cache_expiry,
                       live_before |-> live]
    /\ UNCHANGED now

(* the caller takes the returned value *)
Return ==
    /\ call # Idle
    /\ call' = Idle
    /\ UNCHANGED <<now, price_cache, cache_expiry, live>>

Next == Tick \/ GetEthPrice \/ Return

(* the price cache over time *)
Spec == Init /\ [][Next]_vars

----------------------------------------------------------------------------
(* Requests for one wallet *)
ServiceState ==
    [cache |-> price_cache, expiry |-> cache_expiry, live |-> live,
     fetched |-> 0, reads |-> 0]

Commit(st) ==
    /\ price_cache' = st.cache
    /\ cache_expiry' = st.expiry
    /\ live' = st.live

Address(i) == "0x" \o ToString(i)
Addresses(n) == [i \in 1..n |-> Address(i)]

Feeds == [fails : 0..MaxFails, then : PriceReplies]
Chains == [balance : BalanceReplies, txlist : TxReplies,
           tokentx : TokenReplies]
\* the replies with one failure of each effect
\* a wallet with 50 ETH, 120 transactions in 800 days, 5 of them DeFi
FundedChains ==
    [balance : {[kind |-> "ok", result |-> 5000]},
     txlist  : {[kind |-> "ok", result |-> HistoryFunded]},
     tokentx : {[kind |-> "timeout", result |-> <<>>]}
               \cup [kind : {"ok"}, result : {TokensTwo, TokensFunded}]]
ScoreChains == { c \in Chains :
                   \A f \in {"balance", "txlist", "tokentx"} :
                       c[f].kind \in {"ok", "timeout", "bad_result"} }
               \cup FundedChains

\* a wallet with 1 ETH
SmallChains ==
    [balance : {[kind |-> "ok", result |-> 100]},
     txlist  : {[kind |-> "ok", result |-> HistoryQuiet]},
     tokentx : [kind : {"ok"}, result : TokenLists]]

AnalyzeWallet ==
    /\ call = Idle
    /\ \E reply \in PriceReplies, chain \in Chains \cup SmallChains :
         \E a \in {analyze_wallet(Address(1), ServiceState, now,
                                 [fails |-> 0, then |-> reply], chain)} :
           /\ Commit(a.st)
           /\ call' = [op |-> "analyze_wallet", address |-> Address(1),
                       chain |-> chain, raised |-> a.raised,
                       metrics |-> a.metrics, eth_price |-> a.eth_price,
                       balance_data |-> a.balance_data,
                       transactions |-> a.transactions,
                       token_holdings |-> a.token_holdings]
    /\ UNCHANGED now

ScoreForMortgage ==
    /\ call = Idle
    /\ \E feed \in Feeds, chain \in ScoreChains :
         \E s \in {score_for_mortgage(Address(1), ServiceState, now, feed,
                                     chain)} :
           /\ Commit(s.st)
           /\ call' = [op |-> "score_for_mortgage", address |-> Address(1),
                       chain |-> chain, raised |-> s.raised,
                       score |-> s.score, metrics |-> s.metrics,
                       eth_price |-> s.eth_price,
                       liquidity_price |-> s.liquidity_price,
                       analyzed |-> s.analyzed, fetched |-> s.st.fetched]
    /\ UNCHANGED now

(* two applications of _determine_risk_tier; scores in hundredths of a     *)
(* point, values in cents                                                  *)
TierScores == {0, 3999, 4000, 5999, 6000, 7499, 7500, 10000}
TierValues == {0, Usd(50000) - 1, Usd(50000), Usd(100000) - 1, Usd(100000),
               Usd(250000)}
TierOf(score, value) ==
    [overall_score |-> score, total_value_usd |-> value,
     risk_tier |-> determine_risk_tier(score * (OverallUnit \div 100), value)]

DetermineRiskTier ==
    /\ call = Idle
    /\ \E s1 \in TierScores, s2 \in TierScores,
          v1 \in TierValues, v2 \in TierValues :
         call' = [op |-> "determine_risk_tier", a |-> TierOf(s1, v1),
                  b |-> TierOf(s2, v2)]
    /\ UNCHANGED <<now, price_cache, cache_expiry, live>>

(* an application of _classify_behavior; the value in half cents *)
\* 15 transactions in 30 days, one of them staking
HistoryBusyStaker ==
    <<Tx({}, {}, TRUE, 1, 1), Tx({}, {}, FALSE, 30, 14)>>
ClassifyHistories == Histories \cup {<<>>, HistoryBusyStaker}
ClassifyAges == {0, 30, 60, 100, 365, 366, 800}
ClassifyValues == {0, 2 * Usd(1000000) - 1, 2 * Usd(1000000)}

ClassifyBehavior ==
    /\ call = Idle
    /\ \E transactions \in ClassifyHistories, wallet_age_days \in ClassifyAges,
          total_value2 \in ClassifyValues :
         call' = [op |-> "classify_behavior", transactions |-> transactions,
                  wallet_age_days |-> wallet_age_days,
                  total_value2 |-> total_value2,
                  ret |-> classify_behavior(transactions, wallet_age_days,
                                            total_value2)]
    /\ UNCHANGED <<now, price_cache, cache_expiry, live>>

NextWallet ==
    \/ AnalyzeWallet
    \/ ScoreForMortgage
    \/ DetermineRiskTier
    \/ ClassifyBehavior
    \/ Return

SpecWallet == Init /\ [][NextWallet]_vars

----------------------------------------------------------------------------
(* Batch and discovery requests *)
ChainDown ==
    [balance |-> [kind |-> "timeout", result |-> 0],
     txlist  |-> [kind |-> "timeout", result |-> <<>>],
     tokentx |-> [kind |-> "timeout", result |-> <<>>]]
ChainBroken ==
    [balance |-> [kind |-> "ok", result |-> 9808],
     txlist  |-> [kind |-> "bad_result", result |-> <<>>],
     tokentx |-> [kind |-> "timeout", result |-> <<>>]]
ChainRich ==
    [balance |-> [kind |-> "ok", result |-> 9808],
     txlist  |-> [kind |-> "ok", result |-> HistoryOld],
     tokentx |-> [kind |-> "http_error", result |-> <<>>]]
ChainMiddle ==
    [balance |-> [kind |-> "ok", result |-> 4308],
     txlist  |-> [kind |-> "ok", result |-> HistoryQuiet],
     tokentx |-> [kind |-> "ok", result |-> TokensTwo]]
BatchChains == {ChainDown, ChainBroken, ChainRich, ChainMiddle}

BatchFeeds ==
    [fails : 0..MaxFails,
     then : {[kind |-> "timeout", usd |-> 0], [kind |-> "no_price", usd |-> 0],
             [kind |-> "ok", usd |-> 3000]}]

\* <<min_value_usd (cents), min_score (hundredths of a point)>>
Thresholds == {<<Usd(50000), 6000>>, <<Usd(150000), 6000>>,
               <<Usd(150000), 7500>>}

BatchAnalyze ==
    /\ call = Idle
    /\ \E n \in 0..MaxAddresses, feed \in BatchFeeds :
       \E chains \in [1..n -> BatchChains] :
         \E r \in {batch_analyze(Addresses(n), ServiceState, now, feed,
                                chains)} :
           /\ Commit(r.st)
           /\ call' = [op |-> "batch_analyze", addresses |-> Addresses(n),
                       raised |-> r.raised, ret |-> r.ret,
                       unsorted |-> r.unsorted, trace |-> r.trace]
    /\ UNCHANGED now

(* what the provider answers when score_for_mortgage reads the wallets    *)
(* again: the same as before, or a changed reply                           *)
SecondReplies(firsts) ==
    {firsts} \cup {[i \in DOMAIN firsts |-> c] : c \in {ChainBroken, ChainMiddle}}

DiscoverProspects ==
    /\ call = Idle
    /\ \E n \in 0..MaxAddresses, feed \in BatchFeeds, th \in Thresholds :
       \E firsts \in [1..n -> BatchChains] :
       \E seconds \in SecondReplies(firsts) :
         \E r \in {discover_prospects(th[1], th[2], Addresses(n),
                                     ServiceState, now, feed, firsts,
                                     seconds)} :
           /\ Commit(r.st)
           /\ call' = [op |-> "discover_prospects",
                       min_value_usd |-> th[1], min_score |-> th[2],
                       sample_addresses |-> Addresses(n),
                       raised |-> r.raised, ret |-> r.ret,
                       unsorted |-> r.unsorted, trace |-> r.trace,
                       reads |-> r.reads]
    /\ UNCHANGED now

NextBatch == BatchAnalyze \/ DiscoverProspects \/ Return

SpecBatch == Init /\ [][NextBatch]_vars

----------------------------------------------------------------------------
(* The HTTP boundary, seraphai_backend_full.py.  A JSON string supplied    *)
(* as an address is [head: its first two characters, len: its length,      *)
(* id: a serial number]; a request body is a JSON object.  A handler       *)
(* returns the status of its response and core, the calls it made to the   *)
(* shared CryptoProspectingService.                                        *)
BatchLimit == 50
DiscoverLimit == 100
AddressLength == 42

WellFormed(i) == [head |-> "0x", len |-> AddressLength, id |-> i]
TooShort(i)   == [head |-> "0x", len |-> AddressLength - 1, id |-> i]
NoPrefix(i)   == [head |-> "1x", len |-> AddressLength, id |-> i]
\* wallet_address absent or ""
NoAddress     == [head |-> "", len |-> 0, id |-> 0]

(* wallet_address.startswith('0x') and len(wallet_address) == 42 *)
valid_format(addr) == addr.head = "0x" /\ addr.len = AddressLength

(* generate_prospect_report *)
generate_prospect_report(address, st, t, feed, chain) ==
    Once({
      IF a.raised THEN [raised |-> TRUE, st |-> a.st]
      ELSE Once({ [raised |-> s.raised, st |-> s.st]
                  : s \in {score_for_mortgage(address, a.st, t, feed, chain)} })
      : a \in {analyze_wallet(address, st, t, feed, chain)} })

Rejected(st) == [status |-> 400, core |-> <<>>, st |-> st]
Responded(raised, fn, addresses, st) ==
    [status |-> IF raised THEN 500 ELSE 200,
     core |-> <<[fn |-> fn, addresses |-> addresses]>>, st |-> st]

(* POST /prospect/analyze *)
prospect_analyze(wallet_address, st, t, feed, chain) ==
    IF wallet_address = NoAddress THEN Rejected(st)
    ELSE IF ~valid_format(wallet_address) THEN Rejected(st)
    ELSE Once({ Responded(r.raised, "analyze_wallet", <<wallet_address>>, r.st)
                : r \in {analyze_wallet(wallet_address, st, t, feed, chain)} })

(* POST /prospect/score *)
prospect_score(wallet_address, st, t, feed, chain) ==
    IF wallet_address = NoAddress THEN Rejected(st)
    ELSE IF ~valid_format(wallet_address) THEN Rejected(st)
    ELSE Once({ Responded(r.raised, "score_for_mortgage", <<wallet_address>>, r.st)
                : r \in {score_for_mortgage(wallet_address, st, t, feed, chain)} })

(* POST /prospect/report *)
prospect_report(wallet_address, st, t, feed, chain) ==
    IF wallet_address = NoAddress THEN Rejected(st)
    ELSE IF ~valid_format(wallet_address) THEN Rejected(st)
    ELSE Once({ Responded(r.raised, "generate_prospect_report", <<wallet_address>>, r.st)
                : r \in {generate_prospect_report(wallet_address, st, t, feed, chain)} })

(* POST /prospect/batch *)
prospect_batch(addresses, st, t, feed, chain) ==
    IF addresses = <<>> THEN Rejected(st)
    ELSE IF Len(addresses) > BatchLimit THEN Rejected(st)
    ELSE IF \E i \in 1..Len(addresses) : ~valid_format(addresses[i])
    THEN Rejected(st)
    ELSE Once({ Responded(r.raised, "batch_analyze", addresses, r.st)
                : r \in {batch_analyze(addresses, st, t, feed,
                                      [i \in 1..Len(addresses) |-> chain])} })

(* POST /prospect/discover, with the default min_value_usd and min_score *)
prospect_discover(addresses, st, t, feed, chain) ==
    IF addresses = <<>> THEN Rejected(st)
    ELSE IF Len(addresses) > DiscoverLimit THEN Rejected(st)
    ELSE Once({ Responded(r.raised, "discover_prospects", addresses, r.st)
                : r \in {discover_prospects(
                            Usd(50000), 60 * 100, addresses, st, t, feed,
                            [i \in 1..Len(addresses) |-> chain],
                            [i \in 1..Len(addresses) |-> chain])} })

\* what a client may put in wallet_address
SuppliedAddresses == {NoAddress, WellFormed(1), TooShort(1), NoPrefix(1)}
\* n addresses, well formed but for the one at position bad (0: none)
AddressList(n, bad) ==
    [i \in 1..n |-> IF i = bad THEN TooShort(i) ELSE WellFormed(i)]
SuppliedLists ==
    { AddressList(n, bad) :
        n \in {0, 1, 2, BatchLimit, BatchLimit + 1, DiscoverLimit,
               DiscoverLimit + 1},
        bad \in {0, 1, 2} }
HttpFeed == [fails |-> 0, then |-> [kind |-> "ok", usd |-> 3000]]
HttpChains == BatchChains

HttpCall(endpoint, supplied, r) ==
    /\ Commit(r.st)
    /\ call' = [op |-> "http", endpoint |-> endpoint, supplied |-> supplied,
                status |-> r.status, core |-> r.core]
    /\ UNCHANGED now

ProspectAnalyze ==
    /\ call = Idle
    /\ \E wallet_address \in SuppliedAddresses, chain \in HttpChains :
         \E r \in {prospect_analyze(wallet_address, ServiceState, now,
                                   HttpFeed, chain)} :
           HttpCall("/prospect/analyze", <<wallet_address>>, r)

ProspectScore ==
    /\ call = Idle
    /\ \E wallet_address \in SuppliedAddresses, chain \in HttpChains :
         \E r \in {prospect_score(wallet_address, ServiceState, now,
                                 HttpFeed, chain)} :
           HttpCall("/prospect/score", <<wallet_address>>, r)

ProspectReport ==
    /\ call = Idle
    /\ \E wallet_address \in SuppliedAddresses, chain \in HttpChains :
         \E r \in {prospect_report(wallet_address, ServiceState, now,
                                  HttpFeed, chain)} :
           HttpCall("/prospect/report", <<wallet_address>>, r)

ProspectBatch ==
    /\ call = Idle
    /\ \E addresses \in SuppliedLists, chain \in HttpChains :
         \E r \in {prospect_batch(addresses, ServiceState, now, HttpFeed,
                                 chain)} :
           HttpCall("/prospect/batch", addresses, r)

ProspectDiscover ==
    /\ call = Idle
    /\ \E addresses \in SuppliedLists, chain \in HttpChains :
         \E r \in {prospect_discover(addresses, ServiceState, now, HttpFeed,
                                    chain)} :
           HttpCall("/prospect/discover", addresses, r)

NextHttp ==
    \/ ProspectAnalyze
    \/ ProspectScore
    \/ ProspectReport
    \/ ProspectBatch
    \/ ProspectDiscover
    \/ Tick
    \/ Return

SpecHttp == Init /\ [][NextHttp]_vars

----------------------------------------------------------------------------
(* Concurrent callers of _get_eth_price on the shared service: the         *)
(* requests of a threaded server.  Each caller runs the statements of      *)
(* _get_eth_price one at a time; the clock may advance between any two.    *)
(* call.caller[i] is the position of caller i: pc, the price it fetched,   *)
(* the expiry and the time it saw when it tested the cache, the value it   *)
(* returned.                                                               *)
Callers == 1..MaxCallers
NewCaller == [pc |-> "start", price |-> 0, seen_expiry |-> 0, checked_at |-> 0, hit |-> FALSE, ret |-> 0]
Running == call.op = "concurrent"
At(i, pc) == Running /\ i \in DOMAIN call.caller /\ call.caller[i].pc = pc
Move(i, c) == call' = [call EXCEPT !.caller[i] = c]

StartCallers ==
    /\ call = Idle
    /\ \E n \in 2..MaxCallers :
         call' = [op |-> "concurrent", caller |-> [i \in 1..n |-> NewCaller]]
    /\ UNCHANGED <<now, price_cache, cache_expiry, live>>

(* if cache_key in self._price_cache: *)
TestKey ==
    \E i \in Callers :
      /\ At(i, "start")
      /\ Move(i, [call.caller[i] EXCEPT
                    !.pc = IF cache_key \in DOMAIN price_cache
                           THEN "test_expiry" ELSE "fetch"])
      /\ UNCHANGED <<now, price_cache, cache_expiry, live>>

(* if time.time() < self._cache_expiry.get(cache_key, 0): *)
TestExpiry ==
    \E i \in Callers :
      /\ At(i, "test_expiry")
      /\ \E e \in {IF cache_key \in DOMAIN cache_expiry
                   THEN cache_expiry[cache_key] ELSE 0} :
           Move(i, [call.caller[i] EXCEPT
                      !.pc = IF now < e THEN "read" ELSE "fetch",
                      !.seen_expiry = e, !.checked_at = now])
      /\ UNCHANGED <<now, price_cache, cache_expiry, live>>

(* return self._price_cache[cache_key] *)
ReadCache ==
    \E i \in Callers :
      /\ At(i, "read")
      /\ Move(i, [call.caller[i] EXCEPT !.pc = "done", !.hit = TRUE,
                                        !.ret = price_cache[cache_key]])
      /\ UNCHANGED <<now, price_cache, cache_expiry, live>>

(* requests.get(...), response.json(), .get("usd", 2500) *)
Fetch ==
    \E i \in Callers, reply \in PriceReplies :
      /\ At(i, "fetch")
      /\ IF reply.kind \in {"ok", "no_price"}
         THEN Move(i, [call.caller[i] EXCEPT
                         !.pc = "write_price",
                         !.price = IF reply.kind = "ok" THEN reply.usd
                                   ELSE FallbackPrice])
         ELSE Move(i, [call.caller[i] EXCEPT !.pc = "done",
                                             !.ret = FallbackPrice])
      /\ live' = IF reply.kind = "ok"
                 THEN [at |-> now, price |-> reply.usd,
                       prices |-> live.prices \cup {reply.usd}]
                 ELSE live
      /\ UNCHANGED <<now, price_cache, cache_expiry>>

(* self._price_cache[cache_key] = price *)
WritePrice ==
    \E i \in Callers :
      /\ At(i, "write_price")
      /\ price_cache' = [k \in DOMAIN price_cache \cup {cache_key} |->
                           IF k = cache_key THEN call.caller[i].price
                           ELSE price_cache[k]]
      /\ Move(i, [call.caller[i] EXCEPT !.pc = "write_expiry"])
      /\ UNCHANGED <<now, cache_expiry, live>>

(* self._cache_expiry[cache_key] = time.time() + 300; return price *)
WriteExpiry ==
    \E i \in Callers :
      /\ At(i, "write_expiry")
      /\ cache_expiry' = [k \in DOMAIN cache_expiry \cup {cache_key} |->
                            IF k = cache_key THEN now + CacheTTL
                            ELSE cache_expiry[k]]
      /\ Move(i, [call.caller[i] EXCEPT !.pc = "done",
                                        !.ret = call.caller[i].price])
      /\ UNCHANGED <<now, price_cache, live>>

(* the clock advances while the callers run *)
Elapse ==
    /\ Running
    /\ \E d \in ClockSteps :
          /\ now + d <= MaxTime
          /\ now' = now + d
    /\ UNCHANGED <<price_cache, cache_expiry, live, call>>

AllReturned == Running /\ \A i \in DOMAIN call.caller : call.caller[i].pc = "done"

(* the callers have their values *)
CallersReturn ==
    /\ AllReturned
    /\ call' = Idle
    /\ UNCHANGED <<now, price_cache, cache_expiry, live>>

NextConcurrent ==
    \/ StartCallers
    \/ TestKey
    \/ TestExpiry
    \/ ReadCache
    \/ Fetch
    \/ WritePrice
    \/ WriteExpiry
    \/ Elapse
    \/ CallersReturn

SpecConcurrent == Init /\ [][NextConcurrent]_vars

----------------------------------------------------------------------------
(* Properties                                                              *)

\* C1: whenever the live fetch inside _get_eth_price fails (timeout,
\* non-200 status, malformed payload, 200 body without a price) the call
\* returns the fallback 2500 and leaves the cached value and the cache
\* expiry as they were.
FailedFetchLeavesCache ==
    (call.op = "get_eth_price" /\ call.fetches = 1 /\ call.reply.kind # "ok")
    => /\ call.ret = FallbackPrice
       /\ price_cache = call.cache_before
       /\ cache_expiry = call.expiry_before

\* C2: a call of _get_eth_price made less than 300 seconds after the last
\* successful live fetch returns the fetched value without a request; any
\* other call issues exactly one live fetch.
CacheServesOnlyFreshLivePrice ==
    call.op = "get_eth_price"
    => IF call.live_before.at >= 0 /\ now < call.live_before.at + 300
       THEN call.fetches = 0 /\ call.ret = call.live_before.price
       ELSE call.fetches = 1

\* C3: on every failing provider outcome _get_wallet_balance returns
\* {balance_eth: 0, success: False}, _get_transaction_history and
\* _get_token_holdings return an empty list, and analyze_wallet does not
\* raise.
GatewayFailSoft ==
    call.op = "analyze_wallet"
    => /\ IsFailure(call.chain.balance)
          => call.balance_data = [balance_eth |-> 0, success |-> FALSE]
       /\ IsFailure(call.chain.txlist) => call.transactions = PyList(<<>>)
       /\ IsFailure(call.chain.tokentx) => call.token_holdings = PyList(<<>>)
       /\ ~call.raised

\* C4: an exception raised for one address aborts neither batch_analyze
\* nor discover_prospects; every address is processed; batch_analyze
\* returns one record per address, the error record {wallet_address, error,
\* overall_score: 0} for a failing one; discover_prospects omits a failing
\* address.
PerItemFaultIsolation ==
    /\ call.op = "batch_analyze"
       => /\ ~call.raised
          /\ Len(call.trace) = Len(call.addresses)
          /\ Len(call.ret) = Len(call.addresses)
          /\ \A i \in 1..Len(call.addresses) :
                /\ Cardinality({j \in 1..Len(call.ret) :
                      call.ret[j].wallet_address = call.addresses[i]}) = 1
                /\ call.trace[i] = "raised"
                   => \E j \in 1..Len(call.ret) :
                        /\ call.ret[j].wallet_address = call.addresses[i]
                        /\ DOMAIN call.ret[j]
                             = {"wallet_address", "error", "overall_score"}
                        /\ call.ret[j].overall_score = 0
                /\ call.trace[i] = "scored"
                   => \E j \in 1..Len(call.ret) :
                        /\ call.ret[j].wallet_address = call.addresses[i]
                        /\ "error" \notin DOMAIN call.ret[j]
    /\ call.op = "discover_prospects"
       => /\ ~call.raised
          /\ Len(call.trace) = Len(call.sample_addresses)
          /\ \A i \in 1..Len(call.sample_addresses) :
                /\ call.trace[i] = "raised"
                   => \A j \in 1..Len(call.ret) :
                        call.ret[j].wallet_address # call.sample_addresses[i]
                /\ call.trace[i] = "lead"
                   => \E j \in 1..Len(call.ret) :
                        call.ret[j].wallet_address = call.sample_addresses[i]

\* a batch in which an address raised and a later address was scored
FaultThenScoredInOneBatch ==
    /\ call.op = "batch_analyze"
    /\ \E i, j \in 1..Len(call.trace) :
          i < j /\ call.trace[i] = "raised" /\ call.trace[j] = "scored"

\* C5: every lead discover_prospects returns has estimated_value >=
\* min_value_usd, qualification_score >= min_score, and the address of one
\* of the inputs.
LeadsMeetThresholds ==
    call.op = "discover_prospects"
    => \A j \in 1..Len(call.ret) :
          /\ call.ret[j].estimated_value >= call.min_value_usd
          /\ call.ret[j].qualification_score >= call.min_score
          /\ \E i \in 1..Len(call.sample_addresses) :
                call.sample_addresses[i] = call.ret[j].wallet_address

\* a discovery that returned a lead and dropped another address for its
\* value or its score
LeadAndFilteredAddresses ==
    /\ call.op = "discover_prospects"
    /\ Len(call.ret) >= 1
    /\ \E i \in 1..Len(call.trace) :
          call.trace[i] \in {"low_value", "low_score"}

\* C6: the list batch_analyze returns is in non-increasing order of
\* overall_score (0 for an error record), the list discover_prospects
\* returns in non-increasing order of qualification_score.
ResultsSortedDescending ==
    /\ call.op = "batch_analyze"
       => \A i \in 1..(Len(call.ret) - 1) :
             call.ret[i].overall_score >= call.ret[i + 1].overall_score
    /\ call.op = "discover_prospects"
       => \A i \in 1..(Len(call.ret) - 1) :
             call.ret[i].qualification_score
                >= call.ret[i + 1].qualification_score

\* a batch with an error record that the sort had to move
SortMovedErrorRecord ==
    /\ call.op = "batch_analyze"
    /\ call.ret # call.unsorted
    /\ \E i \in 1..Len(call.trace) : call.trace[i] = "raised"

\* C7: the overall_score of every record score_for_mortgage returns is
\* within 0.01 of 0.30 wealth + 0.25 stability + 0.20 behavior + 0.15
\* liquidity + 0.10 verification of the same record, and the five weights
\* sum to exactly 1.0.
OverallIsWeightedSum ==
    /\ WEALTH_WEIGHT + STABILITY_WEIGHT + BEHAVIOR_WEIGHT + LIQUIDITY_WEIGHT
          + VERIFICATION_WEIGHT = WeightUnit
    /\ (call.op = "score_for_mortgage" /\ ~call.raised)
       => Abs(100 * call.score.overall_score
              - (  30 * call.score.wealth_score
                 + 25 * call.score.stability_score
                 + 20 * call.score.behavior_score
                 + 15 * call.score.liquidity_score
                 + 10 * call.score.verification_score)) <= 100

\* a returned record whose overall_score differs from the weighted sum of
\* its rounded components
RoundingSeparatesOverallFromSum ==
    /\ call.op = "score_for_mortgage"
    /\ ~call.raised
    /\ 100 * call.score.overall_score
         # (  30 * call.score.wealth_score
            + 25 * call.score.stability_score
            + 20 * call.score.behavior_score
            + 15 * call.score.liquidity_score
            + 10 * call.score.verification_score)

\* C8: for the metrics analyze_wallet produces, wealth_score,
\* stability_score, behavior_score, liquidity_score, verification_score and
\* overall_score all lie in [0, 100].
ScoresInRange ==
    (call.op = "score_for_mortgage" /\ ~call.raised)
    => \A f \in {"wealth_score", "stability_score", "behavior_score",
                 "liquidity_score", "verification_score", "overall_score"} :
          call.score[f] \in 0..(100 * 100)

\* a wallet worth more than $2,000,000, where the cap of the wealth score
\* acts
WealthScoreAtCap ==
    /\ call.op = "score_for_mortgage"
    /\ ~call.raised
    /\ call.metrics.total_value_usd > Usd(2000000)
    /\ call.score.wealth_score = 100 * 100

\* C9: with unqualified < subprime < near_prime < prime,
\* _determine_risk_tier is non-decreasing in overall_score for a fixed
\* total_value_usd and non-decreasing in total_value_usd for a fixed
\* overall_score, and decides first-match: prime (>= 75 and >= $100,000),
\* near_prime (>= 60 and >= $50,000), subprime (>= 40), unqualified.
RiskTierMonotone ==
    call.op = "determine_risk_tier"
    => LET rank == [tier \in {"unqualified", "subprime", "near_prime",
                              "prime"} |->
                      CASE tier = "unqualified" -> 0
                        [] tier = "subprime"    -> 1
                        [] tier = "near_prime"  -> 2
                        [] tier = "prime"       -> 3]
           a == call.a
           b == call.b
       IN  /\ (a.total_value_usd = b.total_value_usd
               /\ a.overall_score <= b.overall_score)
              => rank[a.risk_tier] <= rank[b.risk_tier]
           /\ (a.overall_score = b.overall_score
               /\ a.total_value_usd <= b.total_value_usd)
              => rank[a.risk_tier] <= rank[b.risk_tier]
           /\ a.risk_tier =
                IF a.overall_score >= 7500 /\ a.total_value_usd >= 10000000
                THEN "prime"
                ELSE IF a.overall_score >= 6000
                        /\ a.total_value_usd >= 5000000
                THEN "near_prime"
                ELSE IF a.overall_score >= 4000 THEN "subprime"
                ELSE "unqualified"

\* two applications with one value where the higher score gets the higher
\* tier, the lower one landing just below 60
HigherScoreHigherTier ==
    /\ call.op = "determine_risk_tier"
    /\ call.a.total_value_usd = call.b.total_value_usd
    /\ call.a.overall_score = 5999
    /\ call.b.overall_score = 6000
    /\ call.a.risk_tier = "subprime"
    /\ call.b.risk_tier = "near_prime"

\* C10: the risk_tier of a record score_for_mortgage returns is the tier
\* the first-match table gives for the overall_score and estimated_net_worth
\* of that record, so that two records equal in both have equal tiers.
TierMatchesReturnedScore ==
    (call.op = "score_for_mortgage" /\ ~call.raised)
    => call.score.risk_tier =
         determine_risk_tier(call.score.overall_score * (OverallUnit \div 100),
                             call.score.estimated_net_worth)

\* C11: _classify_behavior returns exactly one of the seven labels, by the
\* first rule that matches: no transactions -> dormant; value >= 1,000,000
\* -> whale; >= 3 distinct recognized DeFi protocols -> defi_power_user;
\* monthly rate > 20 -> active_trader; rate in [2, 10] -> accumulator;
\* rate < 2 and age > 365 -> hodler; "stake" or "farm" in the payload ->
\* yield_farmer; otherwise accumulator.  With age 0 the rate is the number
\* of transactions.
ClassificationByPriority ==
    call.op = "classify_behavior"
    => LET txs    == call.transactions
           age    == call.wallet_age_days
           count  == PyLen(txs)
           \* rate = num / den transactions per month
           num    == IF age = 0 THEN count ELSE 30 * count
           den    == IF age = 0 THEN 1 ELSE age
           protos == { p \in KnownDefiClassify :
                         \E i \in 1..Len(txs) :
                            p \in txs[i].to \cup txs[i].functionName }
           none   == count = 0
           whale  == call.total_value2 >= 2 * 100000000
           defi   == Cardinality(protos) >= 3
           trader == num > 20 * den
           accum  == 2 * den <= num /\ num <= 10 * den
           hodl   == num < 2 * den /\ age > 365
           farm   == \E i \in 1..Len(txs) : txs[i].stake_farm
       IN  /\ call.ret \in {"hodler", "accumulator", "whale", "yield_farmer",
                            "defi_power_user", "active_trader", "dormant"}
           /\ none => call.ret = "dormant"
           /\ (~none /\ whale) => call.ret = "whale"
           /\ (~none /\ ~whale /\ defi) => call.ret = "defi_power_user"
           /\ (~none /\ ~whale /\ ~defi /\ trader)
              => call.ret = "active_trader"
           /\ (~none /\ ~whale /\ ~defi /\ ~trader /\ accum)
              => call.ret = "accumulator"
           /\ (~none /\ ~whale /\ ~defi /\ ~trader /\ ~accum /\ hodl)
              => call.ret = "hodler"
           /\ (~none /\ ~whale /\ ~defi /\ ~trader /\ ~accum /\ ~hodl /\ farm)
              => call.ret = "yield_farmer"
           /\ (~none /\ ~whale /\ ~defi /\ ~trader /\ ~accum /\ ~hodl /\ ~farm)
              => call.ret = "accumulator"

\* a wallet worth $1,000,000 that used three recognized protocols
WhaleUsingThreeProtocols ==
    /\ call.op = "classify_behavior"
    /\ call.transactions = HistoryDefi
    /\ call.total_value2 = 2 * Usd(1000000)
    /\ call.ret = "whale"

\* C12 as stated: when the balance, history and token reads all time out,
\* analyze_wallet returns metrics whose numeric fields are all zero and
\* behavior_type 'dormant', and score_for_mortgage returns without raising,
\* with risk_tier 'unqualified' and outreach_priority 'low', whether or not
\* the price fetch fails.
DegradedMetricsAllZero ==
    LET down == \A f \in {"balance", "txlist", "tokentx"} :
                   call.chain[f].kind = "timeout"
    IN  /\ (call.op = "analyze_wallet" /\ down)
           => /\ ~call.raised
              /\ \A f \in {"total_value_usd", "eth_balance", "token_count",
                            "nft_count", "transaction_count",
                            "wallet_age_days", "avg_hold_time_days",
                            "largest_single_holding_pct",
                            "defi_protocol_count", "staking_positions",
                            "diversification_score"} :
                    call.metrics[f] = 0
              /\ call.metrics.behavior_type = "dormant"
        /\ (call.op = "score_for_mortgage" /\ down)
           => /\ ~call.raised
              /\ call.score.risk_tier = "unqualified"
              /\ call.score.outreach_priority = "low"

\* C12 as amended: in that scenario the value, the balance, the counts, the
\* age and the hold time are zero, largest_single_holding_pct is 100,
\* diversification_score is 5.0 and behavior_type is 'dormant';
\* score_for_mortgage returns without raising, with risk_tier
\* 'unqualified' and outreach_priority 'low', whether or not the price
\* fetch fails.
DegradedMetrics ==
    LET down == \A f \in {"balance", "txlist", "tokentx"} :
                   call.chain[f].kind = "timeout"
    IN  /\ (call.op = "analyze_wallet" /\ down)
           => /\ ~call.raised
              /\ \A f \in {"total_value_usd", "eth_balance", "token_count",
                            "nft_count", "transaction_count",
                            "wallet_age_days", "avg_hold_time_days",
                            "defi_protocol_count", "staking_positions"} :
                    call.metrics[f] = 0
              /\ call.metrics.largest_single_holding_pct = 100 * 100
              /\ call.metrics.diversification_score = 5 * 100
              /\ call.metrics.behavior_type = "dormant"
        /\ (call.op = "score_for_mortgage" /\ down)
           => /\ ~call.raised
              /\ call.score.risk_tier = "unqualified"
              /\ call.score.outreach_priority = "low"

\* a score computed while the three reads and both price requests timed out
ScoredWithEverythingDown ==
    /\ call.op = "score_for_mortgage"
    /\ \A f \in {"balance", "txlist", "tokentx"} :
          call.chain[f].kind = "timeout"
    /\ price_cache = EmptyDict
    /\ ~call.raised

\* C13: every prospecting endpoint calls the core service only after each
\* supplied address has passed the syntax check (starts with '0x', length
\* 42) and the list is within its size limit; a malformed address, a
\* missing or empty list and an oversize batch give HTTP 400 without a core
\* call; a batch of 51 is rejected and a batch of 50 well-formed addresses
\* is accepted.
CoreSeesOnlyValidInput ==
    call.op = "http"
    => LET limit == IF call.endpoint = "/prospect/batch" THEN 50
                    ELSE IF call.endpoint = "/prospect/discover" THEN 100
                    ELSE 1
           valid == /\ call.supplied # <<>>
                    /\ Len(call.supplied) <= limit
                    /\ \A i \in 1..Len(call.supplied) :
                          /\ call.supplied[i].head = "0x"
                          /\ call.supplied[i].len = 42
       IN  /\ call.core # <<>> => valid
           /\ ~valid => call.status = 400
           /\ (valid /\ call.endpoint = "/prospect/batch")
              => (call.core # <<>> /\ call.status # 400)

\* C14: for a wallet with 50 ETH at price 2500, the oldest sampled
\* transaction 800 days old, 120 transactions of which 5 are recognized
\* DeFi transactions, and a total value below $1,000,000, the result has
\* total_value_usd >= 125,000, behavior_type 'defi_power_user', wealth_score
\* in [50, 70], the full 40 age points in the stability score, and
\* risk_tier 'prime' exactly when overall_score >= 75.
FundedWalletScenario ==
    (/\ call.op = "score_for_mortgage"
     /\ ~call.raised
     /\ call.eth_price = 2500
     /\ call.metrics.eth_balance = 50 * 100
     /\ call.metrics.wallet_age_days = 800
     /\ call.metrics.transaction_count = 120
     /\ PyLen(SelectSeq(call.chain.txlist.result,
                        LAMBDA tx : tx.to \cup tx.functionName # {})) = 5
     /\ call.metrics.total_value_usd < Usd(1000000))
    => /\ call.metrics.total_value_usd >= Usd(125000)
       /\ call.metrics.behavior_type = "defi_power_user"
       /\ call.score.wealth_score \in (50 * 100)..(70 * 100)
       /\ call.score.stability_score >= 40 * 100
       /\ call.score.risk_tier = "prime" <=> call.score.overall_score >= 75 * 100

\* C15: for an address whose first analysis gives total_value_usd <
\* min_value_usd, discover_prospects makes exactly the three provider reads
\* of one analysis and does not call score_for_mortgage; an address that
\* passes the value filter gets the second round of three reads.
ValueFilterShortCircuits ==
    call.op = "discover_prospects"
    => /\ Len(call.reads) = Len(call.trace)
       /\ \A i \in 1..Len(call.trace) :
             /\ call.trace[i] = "low_value" => call.reads[i] = 3
             /\ call.trace[i] \in {"low_score", "lead"} => call.reads[i] = 6
             /\ call.reads[i] \in {3, 6}

\* a discovery that dropped one address for its value and scored another
DroppedUnscoredAndScored ==
    /\ call.op = "discover_prospects"
    /\ \E i, j \in 1..Len(call.trace) :
          /\ call.trace[i] = "low_value"
          /\ call.trace[j] \in {"low_score", "lead"}

\* C16: for every interleaving of concurrent _get_eth_price calls on one
\* service, each caller returns the fallback 2500 or a price a successful
\* live fetch obtained; no caller is served a cached value whose expiry had
\* passed when it tested it; and when all have returned the cache holds a
\* live-fetched price with an expiry at most 300 seconds ahead.
ConcurrentCallersServed ==
    call.op = "concurrent"
    => /\ \A i \in DOMAIN call.caller :
             call.caller[i].pc = "done"
             => /\ call.caller[i].ret \in {FallbackPrice} \cup live.prices
                /\ call.caller[i].hit
                   => call.caller[i].checked_at < call.caller[i].seen_expiry
       /\ (AllReturned /\ cache_key \in DOMAIN price_cache)
          => /\ price_cache[cache_key] \in live.prices
             /\ cache_key \in DOMAIN cache_expiry
             /\ cache_expiry[cache_key] <= now + CacheTTL

\* C17: after analyze_wallet has returned inside score_for_mortgage no
\* further external read is made, the price cache is not modified, and the
\* liquidity score uses the same reference price as total_value_usd.
ScoringPureAfterExtraction ==
    (call.op = "score_for_mortgage" /\ ~call.raised)
    => /\ call.fetched = call.analyzed.fetched
       /\ price_cache = call.analyzed.cache
       /\ cache_expiry = call.analyzed.expiry
       /\ call.liquidity_price = call.eth_price

\* C18: analyze_wallet returns total_value_usd = balance * price +
\* min(1000 * distinct token count, half of balance * price), to the cent;
\* hence it lies between balance * price and 1.5 times it, it is 0 for a
\* wallet without ETH whatever tokens it holds, and
\* largest_single_holding_pct lies in [0, 100], is at least 66.67 when the
\* total is positive and 100 when it is zero.
TotalValueAndTokenCap ==
    (call.op = "analyze_wallet" /\ ~call.raised)
    => LET m     == call.metrics
           base  == m.eth_balance * call.eth_price
           total == m.total_value_usd
           pct   == m.largest_single_holding_pct
       IN  /\ total = RoundDiv(2 * base
                               + Min(2 * 1000 * Cents * m.token_count, base), 2)
           /\ base <= total
           /\ 2 * total <= 3 * base + 1
           /\ m.eth_balance = 0 => total = 0
           /\ pct \in 0..(100 * 100)
           /\ total > 0 => pct >= 6667
           /\ total = 0 => pct = 100 * 100

\* a wallet whose token estimate is capped at half of its ETH value
TokenEstimateCapped ==
    /\ call.op = "analyze_wallet" /\ ~call.raised
    /\ call.metrics.eth_balance > 0
    /\ 2 * 1000 * Cents * call.metrics.token_count
          > call.metrics.eth_balance * call.eth_price
    /\ call.metrics.largest_single_holding_pct = 6667

\* C19: every result of score_for_mortgage has max_mortgage_amount =
\* round(min(5 * estimated_annual_income, 0.5 * total_value_usd) * m) with
\* m = 1.0 / 0.85 / 0.7 / 0.5 for prime / near_prime / subprime /
\* unqualified; it is not negative, exceeds half of estimated_net_worth by
\* no more than the rounding to a whole dollar, and is 0 when
\* total_value_usd is 0.
MaxMortgageRule ==
    (call.op = "score_for_mortgage" /\ ~call.raised)
    => LET sc     == call.score
           value  == call.metrics.total_value_usd                 \* cents
           income == sc.estimated_annual_income                   \* dollars
           m      == CASE sc.risk_tier = "prime"       -> 100
                       [] sc.risk_tier = "near_prime"  -> 85
                       [] sc.risk_tier = "subprime"    -> 70
                       [] sc.risk_tier = "unqualified" -> 50
           \* min(5 * income, 0.5 * value) in half cents
           base2  == Min(5 * income * 200, value)
       IN  /\ sc.max_mortgage_amount = MulDivRound(base2, m, 200 * 100)
           /\ sc.max_mortgage_amount >= 0
           /\ 200 * sc.max_mortgage_amount <= sc.estimated_net_worth + 100
           /\ value = 0 => sc.max_mortgage_amount = 0

\* a scored wallet whose mortgage is bounded by five times its income and
\* reduced by the multiplier of its tier
IncomeBoundsMortgage ==
    /\ call.op = "score_for_mortgage" /\ ~call.raised
    /\ 5 * call.score.estimated_annual_income * 200
          < call.metrics.total_value_usd
    /\ call.score.risk_tier \in {"near_prime", "subprime", "unqualified"}
    /\ call.score.max_mortgage_amount > 0

\* C20: in every result of score_for_mortgage outreach_priority is "high"
\* iff overall_score >= 80 and total_value_usd >= 250,000, otherwise
\* "medium" iff overall_score >= 60 and total_value_usd >= 100,000,
\* otherwise "low".
PriorityMatchesReturnedScore ==
    (call.op = "score_for_mortgage" /\ ~call.raised)
    => LET sc    == call.score
           value == call.metrics.total_value_usd
       IN  sc.outreach_priority =
             IF sc.overall_score >= 80 * 100 /\ value >= Usd(250000)
             THEN "high"
             ELSE IF sc.overall_score >= 60 * 100 /\ value >= Usd(100000)
             THEN "medium"
             ELSE "low"

\* C21: in every result of score_for_mortgage outreach_priority "high"
\* implies risk_tier "prime", "medium" implies "prime" or "near_prime", and
\* a risk_tier of "subprime" or "unqualified" implies priority "low".
PriorityConsistentWithTier ==
    (call.op = "score_for_mortgage" /\ ~call.raised)
    => LET sc == call.score
       IN  /\ sc.outreach_priority = "high" => sc.risk_tier = "prime"
           /\ sc.outreach_priority = "medium"
              => sc.risk_tier \in {"prime", "near_prime"}
           /\ sc.risk_tier \in {"subprime", "unqualified"}
              => sc.outreach_priority = "low"

\* a wallet scored prime with high priority
HighPriorityPrime ==
    /\ call.op = "score_for_mortgage" /\ ~call.raised
    /\ call.score.outreach_priority = "high"
    /\ call.score.risk_tier = "prime"

\* C22: every lead discover_prospects returns describes one point-in-time
\* chain state: its estimated_value, behavior_type and last_active equal
\* the metrics from which its qualification_score, risk_tier and priority
\* were computed, even when the providers' answers change between the
\* calls made for that address.
LeadsDescribeOneSnapshot ==
    (call.op = "discover_prospects" /\ ~call.raised)
    => \A i \in 1..Len(call.ret) :
         LET lead == call.ret[i]
         IN  /\ lead.estimated_value = lead.scored.total_value_usd
             /\ lead.behavior_type = lead.scored.behavior_type
             /\ lead.last_active = lead.scored.last_transaction_date

====
